---- MODULE Spec2Model ----
(***************************************************************************)
(* A model of banga/python-parser: the grammar model and nullable          *)
(* analysis (src/parser.py, Grammar), the Earley chart parser              *)
(* (src/parser.py, Parser) and the grammar compiler                        *)
(* (src/grammar_parser.py, tokenize and GrammarParser).                    *)
(*                                                                         *)
(* Python lists are 0-based, TLA+ sequences 1-based: the model keeps the   *)
(* code's 0-based values in idx, start and position and adds 1 where it    *)
(* indexes a sequence.                                                     *)
(***************************************************************************)
EXTENDS Integers, Sequences, FiniteSets, TLC

VARIABLES
    pc,          \* where the run is: "init", "ready", "loop", "report", "done", "failed"
    arg_rules,   \* the rules handed to Grammar(rules, start)
    arg_start,   \* the start symbol handed to Grammar(rules, start)
    attrs,       \* the attributes the Grammar object has been given so far
    rules,       \* Grammar.rules
    start,       \* Grammar.start
    nullable,    \* Grammar.nullable
    input,       \* the token sequence handed to Parser.parse
    states,      \* Parser.states: the chart, one list of items per column
    idx,         \* the column the outer loop of Parser.parse is at
    pos,         \* how many items of column idx the inner loop has visited
    out,         \* what Parser.parse has printed, in order
    src,         \* the grammar source handed to tokenize / GrammarParser.parse
    tk,          \* the tokenize generator: idx, nesting_level, what it yielded
    gp           \* the GrammarParser object: rules, counter, start_symbol, ...

parser_vars == <<arg_rules, arg_start, attrs, rules, start, nullable, input,
                 states, idx, pos, out>>

compiler_vars == <<src, tk, gp>>

vars == <<pc, parser_vars, compiler_vars>>

(***************************************************************************)
(* Bounds of the model.  MaxGrammarSize bounds the enumerated grammars:    *)
(* the size of a rule list is the sum over its rules of 1 + the length of  *)
(* the expansion.  MaxInput bounds the length of the enumerated inputs.    *)
(* MaxParenInput bounds the inputs of the parenthesis grammar.             *)
(* MaxSource bounds the length of the enumerated tokenizer sources.        *)
(* MaxChart caps the number of items of one column (a guard of the item    *)
(* loop; no run of the program reaches it within the other bounds).        *)
(***************************************************************************)
MaxGrammarSize == 5
MaxInput == 2
MaxParenInput == 4
MaxChart == 40
MaxSource == 4

(***************************************************************************)
(* Symbol, Rule, Item (parser.py 1-7, 53-57) and the character-set         *)
(* terminal parser.Token.  A Symbol's token is a Python object: a str,     *)
(* compared by value, or a terminal object, which defines no __eq__ and is *)
(* compared by identity.  Obj records both: id is 0 for a str and the      *)
(* object's identity for a terminal; range is what the terminal accepts.   *)
(***************************************************************************)
Obj(value, id, range) == [value |-> value, id |-> id, range |-> range]

Str(value) == Obj(value, 0, {})

Token(id, range) == Obj("", id, range)

Symbol(token, is_terminal) == [token |-> token, is_terminal |-> is_terminal]

\* Python's None where a Symbol is expected: equal to no Symbol.
None == Symbol(Obj("", -1, {}), FALSE)

Rule(symbol, expansion) == [symbol |-> symbol, expansion |-> expansion]

Item(rule, st, position) == [rule |-> rule, start |-> st, position |-> position]

match(token, symbol) == symbol \in token.range

(***************************************************************************)
(* Grammar.validate: the nonterminals of the expansions that head no rule. *)
(* The constructor's assert fails when the result is not empty.            *)
(***************************************************************************)
\* Mutant: only the first symbol of each expansion is looked at.
validate_first_symbol(rs) ==
    LET non_terminals ==
            {rs[i].expansion[1] :
                i \in {i \in 1..Len(rs) :
                         /\ Len(rs[i].expansion) >= 1
                         /\ ~rs[i].expansion[1].is_terminal}}
    IN {symbol \in non_terminals :
            \A i \in 1..Len(rs) : rs[i].symbol # symbol}

validate(rs) ==
    LET non_terminals ==
            UNION {{rs[i].expansion[j] :
                        j \in {j \in 1..Len(rs[i].expansion) :
                                  ~rs[i].expansion[j].is_terminal}} :
                   i \in 1..Len(rs)}
    IN {symbol \in non_terminals :
            \A i \in 1..Len(rs) : rs[i].symbol # symbol}

(***************************************************************************)
(* Grammar._find_nullables: passes over the rules in order until a pass    *)
(* adds nothing.  nullable_pass is one "for rule in self.rules" pass from  *)
(* rule k on.                                                              *)
(***************************************************************************)
RECURSIVE nullable_pass(_, _, _)
nullable_pass(rs, k, nl) ==
    IF k > Len(rs) THEN nl
    ELSE IF rs[k].symbol \in nl THEN nullable_pass(rs, k + 1, nl)
    ELSE IF \A j \in 1..Len(rs[k].expansion) : rs[k].expansion[j] \in nl
         THEN nullable_pass(rs, k + 1, nl \cup {rs[k].symbol})
         ELSE nullable_pass(rs, k + 1, nl)

\* Mutant: a single pass over the rules, no iteration to the fixed point.
find_nullables_one_pass(rs, nl) == nullable_pass(rs, 1, nl)

RECURSIVE _find_nullables(_, _)
_find_nullables(rs, nl) ==
    LET after == nullable_pass(rs, 1, nl)
    IN IF after = nl THEN nl ELSE _find_nullables(rs, after)

(***************************************************************************)
(* Item methods.                                                           *)
(***************************************************************************)
is_partial_parse(item) ==
    item.position = Len(item.rule.expansion) /\ item.start = 0

\* Mutant: the head of the rule is not compared with the start symbol.
is_full_parse_any_head(item, st) == is_partial_parse(item)

is_full_parse(item, st) == is_partial_parse(item) /\ item.rule.symbol = st

can_match(item, symbol) ==
    /\ item.position < Len(item.rule.expansion)
    /\ item.rule.expansion[item.position + 1] = symbol

(***************************************************************************)
(* Parser.add_item: append unless an equal item is in the list.            *)
(***************************************************************************)
\* Mutant: no search for an equal item.
add_item_no_dedup(state, new_item) == Append(state, new_item)

add_item(state, new_item) ==
    IF \E i \in 1..Len(state) : state[i] = new_item
    THEN state
    ELSE Append(state, new_item)

(***************************************************************************)
(* With(v, Op) is Op(v) with v evaluated once: the loops below hand their  *)
(* accumulator on through it, which keeps the evaluation linear in the     *)
(* number of passes.                                                       *)
(***************************************************************************)
With(v, Op(_)) == CHOOSE r \in {Op(x) : x \in {v}} : TRUE

(***************************************************************************)
(* The completion loop of Parser.parse (114-120).  get_advancing_items is  *)
(* a generator over self.states[item.start], read lazily while add_item    *)
(* appends to column idx: when item.start = idx the generator also meets   *)
(* the items the loop itself appends.  j is the generator's position.      *)
(***************************************************************************)
\* Mutant: the waiting items are looked up in the current column instead of
\* the column the complete item started in.
RECURSIVE completion_same_column(_, _, _, _)
completion_same_column(chart, i, item, j) ==
    With(chart, LAMBDA c :
        IF j > Len(c[i + 1]) THEN c
        ELSE IF can_match(c[i + 1][j], item.rule.symbol)
        THEN completion_same_column(
                [c EXCEPT ![i + 1] =
                    add_item(@, Item(c[i + 1][j].rule, c[i + 1][j].start,
                                     c[i + 1][j].position + 1))],
                i, item, j + 1)
        ELSE completion_same_column(c, i, item, j + 1))

RECURSIVE completion(_, _, _, _)
completion(chart, i, item, j) ==
    With(chart, LAMBDA c :
        IF j > Len(c[item.start + 1]) THEN c
        ELSE IF can_match(c[item.start + 1][j], item.rule.symbol)
        THEN completion(
                [c EXCEPT ![i + 1] =
                    add_item(@, Item(c[item.start + 1][j].rule,
                                     c[item.start + 1][j].start,
                                     c[item.start + 1][j].position + 1))],
                i, item, j + 1)
        ELSE completion(c, i, item, j + 1))

(***************************************************************************)
(* The prediction loop of Parser.parse (132-135): get_predictions yields   *)
(* the rules headed by symbol, in rule order; k is its position.           *)
(***************************************************************************)
RECURSIVE prediction(_, _, _, _, _)
prediction(state, rs, symbol, i, k) ==
    With(state, LAMBDA st :
        IF k > Len(rs) THEN st
        ELSE IF rs[k].symbol = symbol
        THEN prediction(add_item(st, Item(rs[k], i, 0)), rs, symbol, i, k + 1)
        ELSE prediction(st, rs, symbol, i, k + 1))

\* Mutant: the seeds get origin 1.
RECURSIVE seed_origin_one(_, _, _, _)
seed_origin_one(state, rs, start_symbol, k) ==
    IF k > Len(rs) THEN state
    ELSE IF rs[k].symbol = start_symbol
    THEN seed_origin_one(Append(state, Item(rs[k], 1, 0)), rs, start_symbol,
                         k + 1)
    ELSE seed_origin_one(state, rs, start_symbol, k + 1)

(***************************************************************************)
(* The seeding of S(0) (96-98): a plain append per rule of the start       *)
(* symbol.                                                                 *)
(***************************************************************************)
RECURSIVE seed(_, _, _, _)
seed(state, rs, start_symbol, k) ==
    IF k > Len(rs) THEN state
    ELSE IF rs[k].symbol = start_symbol
    THEN seed(Append(state, Item(rs[k], 0, 0)), rs, start_symbol, k + 1)
    ELSE seed(state, rs, start_symbol, k + 1)

(***************************************************************************)
(* The report of Parser.parse (143-154): what is printed, in order.        *)
(***************************************************************************)
Line(text, items) == [text |-> text, item |-> items]

RECURSIVE full_parses(_, _, _, _)
full_parses(state, start_symbol, text, k) ==
    IF k > Len(state) THEN <<>>
    ELSE (IF is_full_parse(state[k], start_symbol)
          THEN <<Line(text, <<state[k]>>)>> ELSE <<>>)
         \o full_parses(state, start_symbol, text, k + 1)

\* Mutant: the partial parses are collected from column 0 upwards.
RECURSIVE partial_parses_from(_, _, _, _)
partial_parses_from(chart, start_symbol, c, last) ==
    IF c > last THEN <<>>
    ELSE full_parses(chart[c], start_symbol, "Partial parse:", 1)
         \o partial_parses_from(chart, start_symbol, c + 1, last)

partial_parses_shortest_first(chart, start_symbol, c) ==
    partial_parses_from(chart, start_symbol, 1, c)

RECURSIVE partial_parses(_, _, _)
partial_parses(chart, start_symbol, c) ==
    IF c < 1 THEN <<>>
    ELSE full_parses(chart[c], start_symbol, "Partial parse:", 1)
         \o partial_parses(chart, start_symbol, c - 1)

\* Mutant: the report stops at the first full-parse item it meets.
report_first(chart, start_symbol) ==
    LET full == full_parses(chart[Len(chart)], start_symbol, "Fully parsed:", 1)
        partial == partial_parses(chart, start_symbol, Len(chart))
    IN IF full # <<>> THEN <<full[1]>>
       ELSE <<Line("Partial parse", <<>>)>>
            \o (IF partial # <<>> THEN <<partial[1]>> ELSE <<>>)

report(chart, start_symbol) ==
    LET full == full_parses(chart[Len(chart)], start_symbol, "Fully parsed:", 1)
        is_fully_parsed == full # <<>>
    IN IF is_fully_parsed THEN full
       ELSE <<Line("Partial parse", <<>>)>>
            \o partial_parses(chart, start_symbol, Len(chart))

(***************************************************************************)
(* grammar_parser.tokenize.  The source is a sequence of characters; idx   *)
(* is the code's 0-based index.  A tokenizer state t holds idx,            *)
(* nesting_level, the tokens yielded so far and a status: "run", "done"    *)
(* (ENDMARKER yielded), "AssertionError" or "IndexError".                  *)
(***************************************************************************)
ascii_lowercase ==
    {"a", "b", "c", "d", "e", "f", "g", "h", "i", "j", "k", "l", "m", "n",
     "o", "p", "q", "r", "s", "t", "u", "v", "w", "x", "y", "z"}

ascii_uppercase ==
    {"A", "B", "C", "D", "E", "F", "G", "H", "I", "J", "K", "L", "M", "N",
     "O", "P", "Q", "R", "S", "T", "U", "V", "W", "X", "Y", "Z"}

digits == {"0", "1", "2", "3", "4", "5", "6", "7", "8", "9"}

id_chars == ascii_lowercase \cup ascii_uppercase \cup digits \cup {"_"}

op_chars == {"(", ")", "[", "]", "|", "*", "+", ":"}

GrammarToken(value, type) == [value |-> value, type |-> type]

Yield(t, token) == [t EXCEPT !.tokens = Append(@, token)]

\* The position of the first "\n" at or after i, or -1 when input[idx] is
\* read at idx = end first (input[idx] is read before idx < end is tested).
RECURSIVE comment_end(_, _)
comment_end(inp, i) ==
    IF i >= Len(inp) THEN -1
    ELSE IF inp[i + 1] = "\n" THEN i
    ELSE comment_end(inp, i + 1)

\* Lines 37-41: skip to the newline and past it.
tok_comment(inp, t) ==
    LET nl == comment_end(inp, t.idx)
    IN IF nl = -1 THEN [t EXCEPT !.status = "IndexError"]
       ELSE [t EXCEPT !.idx = nl + 1]

\* The first position at or after i that holds c, or end.
RECURSIVE string_end(_, _, _)
string_end(inp, i, c) ==
    IF i < Len(inp) /\ inp[i + 1] # c THEN string_end(inp, i + 1, c) ELSE i

\* Lines 42-47.
tok_string(inp, t) ==
    LET idx2 == string_end(inp, t.idx + 1, inp[t.idx + 1])
    IN [Yield(t, GrammarToken(SubSeq(inp, t.idx + 2, idx2), "STRING"))
            EXCEPT !.idx = idx2 + 1]

\* Lines 48-50.
tok_space(inp, t) == [t EXCEPT !.idx = @ + 1]

RECURSIVE identifier_end(_, _)
identifier_end(inp, i) ==
    IF i < Len(inp) /\ inp[i + 1] \in id_chars
    THEN identifier_end(inp, i + 1) ELSE i

\* Lines 51-56.
tok_identifier(inp, t) ==
    LET idx2 == identifier_end(inp, t.idx + 1)
    IN [Yield(t, GrammarToken(SubSeq(inp, t.idx + 1, idx2), "IDENTIFIER"))
            EXCEPT !.idx = idx2]

\* Lines 57-63.
tok_operator(inp, t) ==
    LET c == inp[t.idx + 1]
        level == IF c \in {"(", "["} THEN t.nesting_level + 1
                 ELSE IF c \in {")", "]"} THEN t.nesting_level - 1
                 ELSE t.nesting_level
    IN [Yield(t, GrammarToken(<<c>>, "OPERATOR"))
            EXCEPT !.idx = @ + 1, !.nesting_level = level]

\* Lines 64-67.
tok_newline(inp, t) ==
    [(IF t.nesting_level = 0
      THEN Yield(t, GrammarToken(<<"\n">>, "NEWLINE")) ELSE t)
        EXCEPT !.idx = @ + 1]

\* Lines 68-69.
tok_unknown(inp, t) == [t EXCEPT !.status = "AssertionError"]

\* Line 71, after the loop.
tok_end(inp, t) ==
    [Yield(t, GrammarToken(<<>>, "ENDMARKER")) EXCEPT !.status = "done"]

\* Which branch of the loop body (35-69) the next pass takes.
Branch(inp, t) ==
    IF t.idx >= Len(inp) THEN "end"
    ELSE LET c == inp[t.idx + 1]
         IN IF c = "#" THEN "comment"
            ELSE IF c = "'" \/ c = "\"" THEN "string"
            ELSE IF c = " " THEN "space"
            ELSE IF c \in id_chars THEN "identifier"
            ELSE IF c \in op_chars THEN "operator"
            ELSE IF c = "\n" THEN "newline"
            ELSE "unknown"

tokenize_step(inp, t) ==
    LET b == Branch(inp, t)
    IN IF b = "end" THEN tok_end(inp, t)
       ELSE IF b = "comment" THEN tok_comment(inp, t)
       ELSE IF b = "string" THEN tok_string(inp, t)
       ELSE IF b = "space" THEN tok_space(inp, t)
       ELSE IF b = "identifier" THEN tok_identifier(inp, t)
       ELSE IF b = "operator" THEN tok_operator(inp, t)
       ELSE IF b = "newline" THEN tok_newline(inp, t)
       ELSE tok_unknown(inp, t)

NewTokenizer == [idx |-> 0, nesting_level |-> 0, tokens |-> <<>>, status |-> "run"]

\* The generator run to its end: every token it yields, and how it ends.
RECURSIVE tokenize_from(_, _)
tokenize_from(inp, t) ==
    With(t, LAMBDA u :
        IF u.status # "run" THEN u ELSE tokenize_from(inp, tokenize_step(inp, u)))

tokenize(inp) == tokenize_from(inp, NewTokenizer)

(***************************************************************************)
(* main.Terminal, the terminal_cls the driver hands to GrammarParser, and  *)
(* the tokens of Python's tokenize it matches: an upper-case name matches  *)
(* by token type (TOKEN_MAP, a KeyError when the name is not in it), any   *)
(* other value matches token.string.                                       *)
(***************************************************************************)
PyToken(type, string) == [type |-> type, string |-> string]

PyTokens == {PyToken("NAME", "a"), PyToken("NAME", "b"), PyToken("NUMBER", "1")}

TOKEN_MAP ==
    {"ASYNC", "AWAIT", "ENDMARKER", "INDENT", "DEDENT", "NAME", "NEWLINE",
     "NUMBER", "STRING"}

RECURSIVE Join(_)
Join(chars) == IF chars = <<>> THEN "" ELSE Head(chars) \o Join(Tail(chars))

\* str.isupper: at least one cased character and no lower-case one.
isupper(chars) ==
    /\ \E i \in 1..Len(chars) : chars[i] \in ascii_uppercase
    /\ \A i \in 1..Len(chars) : chars[i] \notin ascii_lowercase

Terminal(value, id) ==
    Obj(Join(value), id,
        IF isupper(value)
        THEN {t \in PyTokens : t.type = Join(value)}
        ELSE {t \in PyTokens : t.string = Join(value)})

(***************************************************************************)
(* GrammarParser.  An object state g holds self.rules, self.tokens (the    *)
(* tokens the generator yields; when the generator raises, the exception   *)
(* stands where the next token would be), p (which of them self.token is), *)
(* _internal_symbol_counter, start_symbol, objs (how many terminal objects *)
(* have been made, the identity of the next one), val (what the last call  *)
(* returned) and status: "new", "run", "ok" or the exception raised.       *)
(* created and declared record the symbols _create_internal_symbol         *)
(* returned and the rule heads parse_rule read during the current parse.   *)
(* Every method is the identity on a state whose status is an exception:   *)
(* the exception propagates.                                               *)
(***************************************************************************)
NewGrammarParser ==
    [rules |-> <<>>, tokens |-> <<>>, p |-> 0, counter |-> 0,
     start_symbol |-> None, objs |-> 0, val |-> <<>>, status |-> "new",
     created |-> <<>>, declared |-> <<>>]

Exceptions == {"AssertionError", "IndexError", "KeyError"}

Raised(g) == g.status \in Exceptions

Raise(g, exception) == [g EXCEPT !.status = exception]

Return(g, v) == IF Raised(g) THEN g ELSE [g EXCEPT !.val = v]

Cur(g) == g.tokens[g.p]

IsOp(token, values) == token.type = "OPERATOR" /\ token.value \in values

\* The tokens of the generator, with the exception it raises in the place
\* of the token it would yield next.
generator(inp) ==
    LET t == tokenize(inp)
    IN IF t.status = "done" THEN t.tokens
       ELSE Append(t.tokens, GrammarToken(<<>>, t.status))

\* consume (195-198): self.token = next(self.tokens); returns the old token.
consume(g) ==
    IF Raised(g) THEN g
    ELSE IF g.tokens[g.p + 1].type \in Exceptions
    THEN Raise(g, g.tokens[g.p + 1].type)
    ELSE [g EXCEPT !.p = @ + 1, !.val = Cur(g)]

\* The value None of expect's value parameter.
AnyValue == <<"", "">>

\* expect (186-193).
expect(g, type, value) ==
    IF Raised(g) THEN g
    ELSE IF Cur(g).type # type THEN Raise(g, "AssertionError")
    ELSE IF value # AnyValue /\ Cur(g).value # value
    THEN Raise(g, "AssertionError")
    ELSE consume(g)

\* add_rule (90-94).
add_rule(g, symbol, expansion) ==
    IF Raised(g) THEN g
    ELSE [g EXCEPT !.rules = Append(@, Rule(symbol, expansion))]

\* "__INTERNAL__%d" % self._internal_symbol_counter (99).
InternalName(n) == "__INTERNAL__" \o ToString(n)

\* _create_internal_symbol (97-100).
_create_internal_symbol(g) ==
    IF Raised(g) THEN g
    ELSE LET symbol == Symbol(Str(InternalName(g.counter + 1)), FALSE)
         IN [g EXCEPT !.counter = @ + 1, !.val = symbol,
                      !.created = Append(@, symbol)]

\* Symbol(self.terminal_cls(token.value), True) (176, 181).
terminal_symbol(g, value) ==
    IF Raised(g) THEN g
    ELSE IF isupper(value) /\ Join(value) \notin TOKEN_MAP
    THEN Raise(g, "KeyError")
    ELSE [g EXCEPT !.objs = @ + 1,
                   !.val = <<Symbol(Terminal(value, g.objs + 1), TRUE)>>]

RECURSIVE parse_rhs(_, _)
RECURSIVE parse_rhs_loop(_, _)
RECURSIVE parse_alt(_, _)
RECURSIVE parse_alt_loop(_, _, _)
RECURSIVE parse_item(_)
RECURSIVE parse_atom(_)

\* parse_atom (163-184).
parse_atom(g0) ==
    With(g0, LAMBDA g :
        IF Raised(g) THEN g
        ELSE IF IsOp(Cur(g), {<<"(">>})
        THEN With(_create_internal_symbol(consume(g)), LAMBDA g1 :
                Return(expect(parse_rhs(g1, g1.val), "OPERATOR", <<")">>),
                       <<g1.val>>))
        ELSE IF Cur(g).type = "IDENTIFIER"
        THEN IF isupper(Cur(g).value)
             THEN terminal_symbol(consume(g), Cur(g).value)
             ELSE Return(consume(g),
                         <<Symbol(Str(Join(Cur(g).value)), FALSE)>>)
        ELSE IF Cur(g).type = "STRING"
        THEN terminal_symbol(consume(g), Cur(g).value)
        ELSE Raise(g, "AssertionError"))

\* parse_item (141-161).
parse_item(g0) ==
    With(g0, LAMBDA g :
        IF Raised(g) THEN g
        ELSE IF IsOp(Cur(g), {<<"[">>})
        THEN With(_create_internal_symbol(consume(g)), LAMBDA g1 :
                Return(expect(add_rule(parse_rhs(g1, g1.val), g1.val, <<>>),
                              "OPERATOR", <<"]">>),
                       <<g1.val>>))
        ELSE With(parse_atom(g), LAMBDA g1 :
                IF Raised(g1) \/ ~IsOp(Cur(g1), {<<"+">>, <<"*">>}) THEN g1
                ELSE With(_create_internal_symbol(g1), LAMBDA g2 :
                        LET item == g1.val
                            new_symbol == g2.val
                            g3 == add_rule(add_rule(g2, new_symbol, item),
                                           new_symbol, <<new_symbol>> \o item)
                            g4 == IF Cur(g1).value = <<"*">>
                                  THEN add_rule(g3, new_symbol, <<>>)
                                  ELSE g3
                        IN Return(consume(g4), <<new_symbol>>))))

\* The while loop of parse_alt (134-137), then add_rule (138).
parse_alt_loop(g0, lhs, items) ==
    With(g0, LAMBDA g :
        IF Raised(g) THEN g
        ELSE IF \/ IsOp(Cur(g), {<<"[">>, <<"(">>})
                \/ Cur(g).type \in {"IDENTIFIER", "STRING"}
        THEN With(parse_item(g), LAMBDA g1 :
                parse_alt_loop(g1, lhs, items \o g1.val))
        ELSE Return(add_rule(g, lhs, items), items))

\* parse_alt (130-139).
parse_alt(g0, lhs) ==
    With(parse_item(g0), LAMBDA g1 : parse_alt_loop(g1, lhs, g1.val))

\* The while loop of parse_rhs (126-128).
parse_rhs_loop(g0, lhs) ==
    With(g0, LAMBDA g :
        IF Raised(g) THEN g
        ELSE IF IsOp(Cur(g), {<<"|">>})
        THEN parse_rhs_loop(parse_alt(consume(g), lhs), lhs)
        ELSE g)

\* parse_rhs (123-128).
parse_rhs(g0, lhs) == parse_rhs_loop(parse_alt(g0, lhs), lhs)

\* The while loop of parse_rule (112-113).
RECURSIVE skip_newlines(_)
skip_newlines(g0) ==
    With(g0, LAMBDA g :
        IF Raised(g) THEN g
        ELSE IF Cur(g).type = "NEWLINE" THEN skip_newlines(consume(g))
        ELSE g)

\* Mutant: every rule sets the start symbol, so the last head wins.
parse_rule_last_head(g0) ==
    With(expect(skip_newlines(g0), "IDENTIFIER", AnyValue), LAMBDA g1 :
        IF Raised(g1) THEN g1
        ELSE LET lhs == Symbol(Str(Join(g1.val.value)), FALSE)
                 g2 == expect(g1, "OPERATOR", <<":">>)
                 g3 == expect(parse_rhs(g2, lhs), "NEWLINE", AnyValue)
             IN With(g3, LAMBDA g :
                    IF Raised(g) THEN g
                    ELSE [g EXCEPT
                            !.declared = Append(@, lhs),
                            !.start_symbol = lhs]))

\* parse_rule (111-121).
parse_rule(g0) ==
    With(expect(skip_newlines(g0), "IDENTIFIER", AnyValue), LAMBDA g1 :
        IF Raised(g1) THEN g1
        ELSE LET lhs == Symbol(Str(Join(g1.val.value)), FALSE)
                 g2 == expect(g1, "OPERATOR", <<":">>)
                 g3 == expect(parse_rhs(g2, lhs), "NEWLINE", AnyValue)
             IN With(g3, LAMBDA g :
                    IF Raised(g) THEN g
                    ELSE [g EXCEPT
                            !.declared = Append(@, lhs),
                            !.start_symbol =
                                IF @ = None THEN lhs ELSE @]))

\* The while loop of parse (107-108).
RECURSIVE parse_rules(_)
parse_rules(g0) ==
    With(g0, LAMBDA g :
        IF Raised(g) THEN g
        ELSE IF Cur(g).type # "ENDMARKER" THEN parse_rules(parse_rule(g))
        ELSE [g EXCEPT !.status = "ok"])

\* GrammarParser.parse (102-109), up to the call of Grammar: the first
\* next(self.tokens) runs before the counter and start_symbol are reset.
parse(g, inp) ==
    LET tokens == generator(inp)
        fresh == [g EXCEPT !.tokens = tokens, !.p = 1, !.status = "run",
                           !.val = <<>>, !.created = <<>>, !.declared = <<>>]
    IN IF tokens[1].type \in Exceptions
       THEN Raise(fresh, tokens[1].type)
       ELSE parse_rules([fresh EXCEPT !.counter = 0, !.start_symbol = None])

(***************************************************************************)
(* Grammar sources handed to GrammarParser.parse and the token sequences   *)
(* the compiled grammar is run on.  The comment above each source is its   *)
(* text, with \n for the newline.                                          *)
(***************************************************************************)
MaxTokens == 4

\* s:'a'*\n
StarSource ==
    <<"s", ":", "'", "a", "'", "*", "\n">>

\* s:'a'+\n
PlusSource ==
    <<"s", ":", "'", "a", "'", "+", "\n">>

\* s:['a']\n
OptSource ==
    <<"s", ":", "[", "'", "a", "'", "]", "\n">>

\* s:('a' 'b')*\n
GroupStarSource ==
    <<"s", ":", "(", "'", "a", "'", " ", "'", "b", "'", ")", "*", "\n">>

\* s:('a'|'b')+\n
AltPlusSource ==
    <<"s", ":", "(", "'", "a", "'", "|", "'", "b", "'", ")", "+", "\n">>

\* s:['a' 'b']\n
SeqOptSource ==
    <<"s", ":", "[", "'", "a", "'", " ", "'", "b", "'", "]", "\n">>

\* s:t*\nt:'a' 'a'\n
RuleStarSource ==
    <<"s", ":", "t", "*", "\n", "t", ":", "'", "a", "'", " ", "'", "a",
      "'", "\n">>

\* s:NAME+\n
NamePlusSource ==
    <<"s", ":", "N", "A", "M", "E", "+", "\n">>

\* s:(\n'a'\n)*\n
LinesStarSource ==
    <<"s", ":", "(", "\n", "'", "a", "'", "\n", ")", "*", "\n">>

\* s:'a'*\n__INTERNAL__1:'b'\n
CollisionSource ==
    <<"s", ":", "'", "a", "'", "*", "\n", "_", "_", "I", "N", "T", "E",
      "R", "N", "A", "L", "_", "_", "1", ":", "'", "b", "'", "\n">>

\* s:'a' t|'b'\nt:'b'\n
PlainSource ==
    <<"s", ":", "'", "a", "'", " ", "t", "|", "'", "b", "'", "\n", "t",
      ":", "'", "b", "'", "\n">>

\* s:t\n
DanglingSource ==
    <<"s", ":", "t", "\n">>

\* s:'a' # c\nt:'b'\n
CommentSource ==
    <<"s", ":", "'", "a", "'", " ", "#", " ", "c", "\n", "t", ":", "'",
      "b", "'", "\n">>

\* s:'a'\n\n
BlankLineSource ==
    <<"s", ":", "'", "a", "'", "\n", "\n">>

\* s:FOO\n
UnknownNameSource ==
    <<"s", ":", "F", "O", "O", "\n">>

\* (the empty source)
EmptySource ==
    <<>>

\* __INTERNAL__1:'a'*\n
InternalHeadSource ==
    <<"_", "_", "I", "N", "T", "E", "R", "N", "A", "L", "_", "_", "1", ":",
      "'", "a", "'", "*", "\n">>

\* \ns:('b')\nt:'a'\n
LeadingNewlineSource ==
    <<"\n", "s", ":", "(", "'", "b", "'", ")", "\n", "t", ":", "'", "a", "'",
      "\n">>

GrammarSources ==
    {StarSource, PlusSource, OptSource, GroupStarSource,
     AltPlusSource, SeqOptSource, RuleStarSource, NamePlusSource,
     LinesStarSource, CollisionSource, PlainSource, DanglingSource,
     CommentSource, BlankLineSource, UnknownNameSource, EmptySource,
     InternalHeadSource, LeadingNewlineSource}

(***************************************************************************)
(* The grammars and inputs of the model.  The enumerated cases are every   *)
(* rule list of size at most MaxGrammarSize over the nonterminals S and A  *)
(* and the terminals 'a' and 'b', with start symbol S, against every input *)
(* over the tokens a and b of length at most MaxInput.                     *)
(***************************************************************************)
S == Symbol(Str("S"), FALSE)
A == Symbol(Str("A"), FALSE)
B == Symbol(Str("B"), FALSE)
ta == Symbol(Token(1, {"a"}), TRUE)
tb == Symbol(Token(2, {"b"}), TRUE)

Heads == {S, A}
Syms == {S, A, ta, tb}

RulesOfSize(s) == {Rule(h, e) : h \in Heads, e \in [1..(s - 1) -> Syms]}

RECURSIVE RuleLists(_)
RuleLists(b) ==
    {<<>>} \cup
    UNION {{<<r>> \o g : r \in RulesOfSize(s), g \in RuleLists(b - s)} :
           s \in 1..b}

Inputs(tokens, n) == UNION {[1..k -> tokens] : k \in 0..n}

Case(rs, st, w) == [rules |-> rs, start |-> st, input |-> w]

EnumCases ==
    {Case(g, S, w) : g \in RuleLists(MaxGrammarSize),
                     w \in Inputs({"a", "b"}, MaxInput)}

(***************************************************************************)
(* Named cases: the grammars the specification and the tests name.         *)
(***************************************************************************)
lparen == Symbol(Token(3, {"("}), TRUE)
rparen == Symbol(Token(4, {")"}), TRUE)

\* S -> '(' S ')' | empty
ParenRules == <<Rule(S, <<lparen, S, rparen>>), Rule(S, <<>>)>>

ParenCases == {Case(ParenRules, S, w) : w \in Inputs({"(", ")"}, MaxParenInput)}

\* The grammar of parser.test (202-230).
Sum == Symbol(Str("Sum"), FALSE)
Product == Symbol(Str("Product"), FALSE)
Factor == Symbol(Str("Factor"), FALSE)
Number == Symbol(Str("Number"), FALSE)
Identifier == Symbol(Str("Identifier"), FALSE)
letter == Symbol(Token(5, {"a", "b", "c", "d", "e", "f", "g", "h", "i", "j",
                           "k", "l", "m", "n", "o", "p", "q", "r", "s", "t",
                           "u", "v", "w", "x", "y", "z"}), TRUE)
digit == Symbol(Token(6, {"0", "1", "2", "3", "4", "5", "6", "7", "8", "9"}),
                TRUE)
plus == Symbol(Token(7, {"+", "-"}), TRUE)
star == Symbol(Token(8, {"*", "/"}), TRUE)

SumRules ==
    << Rule(Sum, <<Sum, plus, Product>>),
       Rule(Sum, <<Product>>),
       Rule(Product, <<Product, star, Factor>>),
       Rule(Product, <<Factor>>),
       Rule(Factor, <<lparen, Sum, rparen>>),
       Rule(Factor, <<Number>>),
       Rule(Factor, <<Identifier>>),
       Rule(Number, <<digit, Number>>),
       Rule(Number, <<digit>>),
       Rule(Identifier, <<letter, Identifier>>),
       Rule(Identifier, <<letter>>) >>

SumCases ==
    {Case(SumRules, Sum, w) : w \in
        { <<"1", "+", "2", "*", "3">>,
          <<"1", "+", "(", "2", "3">>,
          <<"(", "x", "-", "1", ")">>,
          <<"f", "o", "o", "/", "+">>,
          <<"1", "2", "*">>,
          <<"*", "1">>,
          <<>> }}

\* A -> A | B A, B -> empty: left recursion through a nullable nonterminal,
\* without and with a rule that ends the recursion.
CycleRules == <<Rule(A, <<A>>), Rule(A, <<B, A>>), Rule(B, <<>>)>>

CycleCases ==
    {Case(g, A, w) : g \in {CycleRules, Append(CycleRules, Rule(A, <<ta>>))},
                     w \in Inputs({"a"}, MaxInput)}

\* S -> A B, A -> empty, B -> empty, and the chain A -> B, B -> empty.
ChainRules == <<Rule(S, <<A, B>>), Rule(A, <<>>), Rule(B, <<>>)>>

ChainCases ==
    {Case(g, st, w) :
        g \in {ChainRules, <<Rule(A, <<B>>), Rule(B, <<>>)>>,
               <<Rule(B, <<>>), Rule(A, <<B>>)>>},
        st \in {S, A}, w \in Inputs({"a"}, 1)}

\* Two terminal objects that accept the same token.
ta2 == Symbol(Token(9, {"a"}), TRUE)

TwinCases ==
    {Case(<<Rule(S, <<ta>>), Rule(S, <<ta2>>)>>, S, w) :
        w \in Inputs({"a"}, MaxInput)}

Cases ==
    EnumCases \cup ParenCases \cup SumCases \cup CycleCases \cup ChainCases
    \cup TwinCases

\* No tokenize generator and no GrammarParser object exist.
NoTokenizer == [idx |-> 0, nesting_level |-> 0, tokens |-> <<>>, status |-> "none"]

NoGrammarParser == [status |-> "none"]

(***************************************************************************)
(* The state after the caller has chosen the arguments and before          *)
(* Grammar(rules, start) runs.                                             *)
(***************************************************************************)
Init ==
    /\ pc = "init"
    /\ \E c \in Cases :
        /\ arg_rules = c.rules
        /\ arg_start = c.start
        /\ input = c.input
    /\ attrs = {}
    /\ rules = <<>>
    /\ start = None
    /\ nullable = {}
    /\ states = <<>>
    /\ idx = 0
    /\ pos = 0
    /\ out = <<>>
    /\ src = <<>>
    /\ tk = NoTokenizer
    /\ gp = NoGrammarParser

(***************************************************************************)
(* Grammar.__init__ (16-21): validate, then set rules, start and nullable. *)
(* A failed assert leaves the object without attributes.                   *)
(***************************************************************************)
GrammarInitFails ==
    /\ pc = "init"
    /\ validate(arg_rules) # {}
    /\ pc' = "failed"
    /\ UNCHANGED <<arg_rules, arg_start, attrs, rules, start, nullable, input,
                   states, idx, pos, out>>
    /\ UNCHANGED compiler_vars

GrammarInit ==
    /\ pc = "init"
    /\ validate(arg_rules) = {}
    /\ attrs' = {"rules", "start", "nullable"}
    /\ rules' = arg_rules
    /\ start' = arg_start
    /\ nullable' = _find_nullables(arg_rules, {})
    /\ pc' = "ready"
    /\ UNCHANGED <<arg_rules, arg_start, input, states, idx, pos, out>>
    /\ UNCHANGED compiler_vars

(***************************************************************************)
(* Parser.parse (90-98): the empty chart and the seeding of S(0).          *)
(***************************************************************************)
ParseStart ==
    /\ pc = "ready"
    /\ states' = [c \in 1..(Len(input) + 1) |->
                    IF c = 1 THEN seed(<<>>, rules, start, 1) ELSE <<>>]
    /\ idx' = 0
    /\ pos' = 0
    /\ pc' = "loop"
    /\ UNCHANGED <<arg_rules, arg_start, attrs, rules, start, nullable, input,
                   out>>
    /\ UNCHANGED compiler_vars

(***************************************************************************)
(* One pass of "for item in state" (108-139) on the next item of column    *)
(* idx: completion, scan, or prediction with the nullable step.            *)
(***************************************************************************)
AtItem ==
    /\ pc = "loop"
    /\ pos < Len(states[idx + 1])
    /\ Len(states[idx + 1]) <= MaxChart

CurrentItem == states[idx + 1][pos + 1]

Advanced(item) == Item(item.rule, item.start, item.position + 1)

Completion ==
    /\ AtItem
    /\ CurrentItem.position = Len(CurrentItem.rule.expansion)
    /\ states' = completion(states, idx, CurrentItem, 1)
    /\ pos' = pos + 1
    /\ UNCHANGED <<pc, arg_rules, arg_start, attrs, rules, start, nullable,
                   input, idx, out>>
    /\ UNCHANGED compiler_vars

\* Mutant: scan without asking the terminal (the match test of line 125 left out).
Scan_any_token ==
    /\ AtItem
    /\ CurrentItem.position # Len(CurrentItem.rule.expansion)
    /\ LET symbol == CurrentItem.rule.expansion[CurrentItem.position + 1]
       IN /\ symbol.is_terminal
          /\ states' =
                IF idx < Len(input)
                THEN [states EXCEPT ![idx + 2] =
                        add_item(@, Advanced(CurrentItem))]
                ELSE states
    /\ pos' = pos + 1
    /\ UNCHANGED <<pc, arg_rules, arg_start, attrs, rules, start, nullable,
                   input, idx, out>>
    /\ UNCHANGED compiler_vars

Scan ==
    /\ AtItem
    /\ CurrentItem.position # Len(CurrentItem.rule.expansion)
    /\ LET symbol == CurrentItem.rule.expansion[CurrentItem.position + 1]
       IN /\ symbol.is_terminal
          /\ states' =
                IF idx < Len(input) /\ match(symbol.token, input[idx + 1])
                THEN [states EXCEPT ![idx + 2] =
                        add_item(@, Advanced(CurrentItem))]
                ELSE states
    /\ pos' = pos + 1
    /\ UNCHANGED <<pc, arg_rules, arg_start, attrs, rules, start, nullable,
                   input, idx, out>>
    /\ UNCHANGED compiler_vars

\* Mutant: prediction without the nullable step (lines 137-139 left out).
Prediction_no_nullable_step ==
    /\ AtItem
    /\ CurrentItem.position # Len(CurrentItem.rule.expansion)
    /\ LET symbol == CurrentItem.rule.expansion[CurrentItem.position + 1]
       IN /\ ~symbol.is_terminal
          /\ states' = [states EXCEPT ![idx + 1] =
                            prediction(@, rules, symbol, idx, 1)]
    /\ pos' = pos + 1
    /\ UNCHANGED <<pc, arg_rules, arg_start, attrs, rules, start, nullable,
                   input, idx, out>>
    /\ UNCHANGED compiler_vars

Prediction ==
    /\ AtItem
    /\ CurrentItem.position # Len(CurrentItem.rule.expansion)
    /\ LET symbol == CurrentItem.rule.expansion[CurrentItem.position + 1]
           predicted == prediction(states[idx + 1], rules, symbol, idx, 1)
       IN /\ ~symbol.is_terminal
          /\ states' = [states EXCEPT ![idx + 1] =
                            IF symbol \in nullable
                            THEN add_item(predicted, Advanced(CurrentItem))
                            ELSE predicted]
    /\ pos' = pos + 1
    /\ UNCHANGED <<pc, arg_rules, arg_start, attrs, rules, start, nullable,
                   input, idx, out>>
    /\ UNCHANGED compiler_vars

(***************************************************************************)
(* "for idx, state in enumerate(self.states)" (100): column idx is         *)
(* exhausted and another column follows.                                   *)
(***************************************************************************)
NextColumn ==
    /\ pc = "loop"
    /\ pos = Len(states[idx + 1])
    /\ idx + 1 < Len(states)
    /\ idx' = idx + 1
    /\ pos' = 0
    /\ UNCHANGED <<pc, arg_rules, arg_start, attrs, rules, start, nullable,
                   input, states, out>>
    /\ UNCHANGED compiler_vars

(***************************************************************************)
(* The last column is exhausted: the report (143-154) and the return.      *)
(***************************************************************************)
Report ==
    /\ pc = "loop"
    /\ pos = Len(states[idx + 1])
    /\ idx + 1 = Len(states)
    /\ out' = report(states, start)
    /\ pc' = "done"
    /\ UNCHANGED <<arg_rules, arg_start, attrs, rules, start, nullable, input,
                   states, idx, pos>>
    /\ UNCHANGED compiler_vars

Next ==
    \/ GrammarInitFails
    \/ GrammarInit
    \/ ParseStart
    \/ Completion
    \/ Scan
    \/ Prediction
    \/ NextColumn
    \/ Report

Spec == Init /\ [][Next]_vars

SpecFair == Spec /\ WF_vars(Next)

(***************************************************************************)
(* The tokenizer on its own: every source over SourceChars of length at    *)
(* most MaxSource, one pass of the loop of tokenize per step.              *)
(***************************************************************************)
SourceChars == {"s", ":", "#", "\n", "(", ")", "'", " ", "$"}

TokSources == UNION {[1..k -> SourceChars] : k \in 0..MaxSource}

InitTok ==
    /\ pc = "tokenize"
    /\ src \in TokSources
    /\ tk = NewTokenizer
    /\ gp = NoGrammarParser
    /\ arg_rules = <<>>
    /\ arg_start = None
    /\ input = <<>>
    /\ attrs = {}
    /\ rules = <<>>
    /\ start = None
    /\ nullable = {}
    /\ states = <<>>
    /\ idx = 0
    /\ pos = 0
    /\ out = <<>>

\* The generator is running and its next pass takes this branch.
TokPass(branch) ==
    /\ pc = "tokenize"
    /\ tk.status = "run"
    /\ Branch(src, tk) = branch

TokComment ==
    /\ TokPass("comment")
    /\ tk' = tok_comment(src, tk)
    /\ UNCHANGED <<pc, src, gp, parser_vars>>

TokString ==
    /\ TokPass("string")
    /\ tk' = tok_string(src, tk)
    /\ UNCHANGED <<pc, src, gp, parser_vars>>

TokSpace ==
    /\ TokPass("space")
    /\ tk' = tok_space(src, tk)
    /\ UNCHANGED <<pc, src, gp, parser_vars>>

TokIdentifier ==
    /\ TokPass("identifier")
    /\ tk' = tok_identifier(src, tk)
    /\ UNCHANGED <<pc, src, gp, parser_vars>>

TokOperator ==
    /\ TokPass("operator")
    /\ tk' = tok_operator(src, tk)
    /\ UNCHANGED <<pc, src, gp, parser_vars>>

TokNewline ==
    /\ TokPass("newline")
    /\ tk' = tok_newline(src, tk)
    /\ UNCHANGED <<pc, src, gp, parser_vars>>

TokUnknown ==
    /\ TokPass("unknown")
    /\ tk' = tok_unknown(src, tk)
    /\ UNCHANGED <<pc, src, gp, parser_vars>>

TokEnd ==
    /\ TokPass("end")
    /\ tk' = tok_end(src, tk)
    /\ UNCHANGED <<pc, src, gp, parser_vars>>

NextTok ==
    \/ TokComment
    \/ TokString
    \/ TokSpace
    \/ TokIdentifier
    \/ TokOperator
    \/ TokNewline
    \/ TokUnknown
    \/ TokEnd

SpecTok == InitTok /\ [][NextTok]_vars

(***************************************************************************)
(* The compiler in front of the parser: GrammarParser(Terminal).parse(src) *)
(* on a new object, then Grammar(rules, start_symbol) and                  *)
(* Parser(grammar).parse(input) as above.                                  *)
(***************************************************************************)
InitGP ==
    /\ pc = "compile"
    /\ src \in GrammarSources
    /\ input \in Inputs(PyTokens, MaxTokens)
    /\ tk = NoTokenizer
    /\ gp = NewGrammarParser
    /\ arg_rules = <<>>
    /\ arg_start = None
    /\ attrs = {}
    /\ rules = <<>>
    /\ start = None
    /\ nullable = {}
    /\ states = <<>>
    /\ idx = 0
    /\ pos = 0
    /\ out = <<>>

\* parse returns: Grammar is called with self.rules and self.start_symbol.
GrammarParserParse ==
    /\ pc = "compile"
    /\ LET g == parse(gp, src)
       IN /\ ~Raised(g)
          /\ gp' = g
          /\ arg_rules' = g.rules
          /\ arg_start' = g.start_symbol
    /\ pc' = "init"
    /\ UNCHANGED <<src, tk, attrs, rules, start, nullable, input, states, idx,
                   pos, out>>

\* parse raises.
GrammarParserParseFails ==
    /\ pc = "compile"
    /\ LET g == parse(gp, src)
       IN /\ Raised(g)
          /\ gp' = g
    /\ pc' = "failed"
    /\ UNCHANGED <<src, tk, parser_vars>>

NextGP ==
    \/ GrammarParserParse
    \/ GrammarParserParseFails
    \/ GrammarInitFails
    \/ GrammarInit
    \/ ParseStart
    \/ Completion
    \/ Scan
    \/ Prediction
    \/ NextColumn
    \/ Report

SpecGP == InitGP /\ [][NextGP]_vars

(***************************************************************************)
(* The same with a GrammarParser object that has been used before: one     *)
(* earlier parse call on any of the sources, whose result or exception the *)
(* caller dropped, then parse(src) on the same object.                     *)
(***************************************************************************)
EarlierParse ==
    /\ pc = "compile"
    /\ gp.status = "new"
    /\ \E earlier \in GrammarSources : gp' = parse(gp, earlier)
    /\ UNCHANGED <<pc, src, tk, parser_vars>>

NextReuse ==
    \/ EarlierParse
    \/ GrammarParserParse
    \/ GrammarParserParseFails
    \/ GrammarInitFails
    \/ GrammarInit
    \/ ParseStart
    \/ Completion
    \/ Scan
    \/ Prediction
    \/ NextColumn
    \/ Report

SpecReuse == InitGP /\ [][NextReuse]_vars

(***************************************************************************)
(* What the grammar derives, defined on derivations and not on the chart:  *)
(* Spans(w, rs, {}) is the least set of triples <<N, i, j>> such that the  *)
(* nonterminal N has a rule whose expansion derives the tokens             *)
(* w[i+1..j].                                                              *)
(***************************************************************************)
SymSpan(w, sym, i, j, D) ==
    IF sym.is_terminal
    THEN j = i + 1 /\ j <= Len(w) /\ match(sym.token, w[j])
    ELSE <<sym, i, j>> \in D

RECURSIVE SeqSpan(_, _, _, _, _, _)
SeqSpan(w, exp, k, i, j, D) ==
    IF k > Len(exp) THEN i = j
    ELSE \E m \in i..j :
            SymSpan(w, exp[k], i, m, D) /\ SeqSpan(w, exp, k + 1, m, j, D)

Grow(w, rs, D) ==
    D \cup UNION {
        {<<rs[r].symbol, p[1], p[2]>> :
            p \in {q \in (0..Len(w)) \X (0..Len(w)) :
                     q[1] <= q[2]
                     /\ SeqSpan(w, rs[r].expansion, 1, q[1], q[2], D)}} :
        r \in 1..Len(rs)}

RECURSIVE Spans(_, _, _)
Spans(w, rs, D) ==
    LET D2 == Grow(w, rs, D) IN IF D2 = D THEN D ELSE Spans(w, rs, D2)

Derivable(w, rs, sym) == <<sym, 0, Len(w)>> \in Spans(w, rs, {})

SymbolsOf(rs) ==
    {rs[i].symbol : i \in 1..Len(rs)} \cup
    UNION {{rs[i].expansion[j] : j \in 1..Len(rs[i].expansion)} :
           i \in 1..Len(rs)}

\* A full-parse item: dot at the end, origin 0, headed by the start symbol.
FullParseItem(it) ==
    /\ it.position = Len(it.rule.expansion)
    /\ it.start = 0
    /\ it.rule.symbol = start

HasFullParse(column) == \E k \in 1..Len(column) : FullParseItem(column[k])

ItemLines == SelectSeq(out, LAMBDA l : l.item # <<>>)

(***************************************************************************)
(* C1.  After Parser.parse(w) the last column holds a full-parse item      *)
(* (dot at the end, origin 0, headed by the start symbol) if and only if   *)
(* w is derivable from the start symbol.                                   *)
(***************************************************************************)
FullParseIffDerivable ==
    pc = "done" =>
        (HasFullParse(states[Len(input) + 1])
            <=> Derivable(input, rules, start))

\* '(())' has been parsed with S -> '(' S ')' | empty and is a full parse.
FullParseWitness ==
    /\ pc = "done"
    /\ rules = ParenRules
    /\ input = <<"(", "(", ")", ")">>
    /\ HasFullParse(states[Len(input) + 1])

(***************************************************************************)
(* C2.  Parser.parse terminates: every run of the program reaches the      *)
(* return of parse (or the failure of the constructor), also for grammars  *)
(* with left recursion and cycles through nullable nonterminals.           *)
(***************************************************************************)
ParseTerminates == <>(pc \in {"done", "failed"})

\* parse has returned for A -> A | B A, B -> empty on a non-empty input.
TerminatesWitness ==
    /\ pc = "done"
    /\ rules = CycleRules
    /\ Len(input) >= 1

(***************************************************************************)
(* C3.  After construction a symbol is in grammar.nullable if and only if  *)
(* it is a nonterminal that derives the empty sequence; no terminal and    *)
(* nothing else is in the set.                                             *)
(***************************************************************************)
NullableIffDerivesEmpty ==
    "nullable" \in attrs =>
        /\ nullable \subseteq SymbolsOf(rules)
        /\ \A sym \in SymbolsOf(rules) :
              sym \in nullable
                <=> (~sym.is_terminal /\ Derivable(<<>>, rules, sym))

\* The chain A -> B, B -> empty, A listed first: A is found nullable.
NullableWitness ==
    /\ "nullable" \in attrs
    /\ rules = <<Rule(A, <<B>>), Rule(B, <<>>)>>
    /\ A \in nullable

(***************************************************************************)
(* C4.  Grammar construction fails if and only if some nonterminal of some *)
(* expansion heads no rule; it fails before rules, start and nullable are  *)
(* set and before any parse runs, and a parse runs only on a constructed   *)
(* grammar.                                                                *)
(***************************************************************************)
Dangling(rs) ==
    \E i \in 1..Len(rs) : \E j \in 1..Len(rs[i].expansion) :
        /\ ~rs[i].expansion[j].is_terminal
        /\ \A k \in 1..Len(rs) : rs[k].symbol # rs[i].expansion[j]

ConstructionFailsIffDangling ==
    /\ pc # "init" => (pc = "failed" <=> Dangling(arg_rules))
    /\ pc = "failed" => attrs = {} /\ states = <<>> /\ out = <<>>
    /\ states # <<>> => attrs = {"rules", "start", "nullable"}

\* The constructor has failed on a rule list of two rules.
ConstructionFailsWitness ==
    /\ pc = "failed"
    /\ Len(arg_rules) = 2
    /\ Dangling(arg_rules)

(***************************************************************************)
(* C6.  No chart column ever holds two items equal on (rule, origin, dot), *)
(* the seeding of S[0] included.                                           *)
(***************************************************************************)
NoDuplicateItems ==
    \A c \in 1..Len(states) : \A i, j \in 1..Len(states[c]) :
        i < j => states[c][i] # states[c][j]

RECURSIVE FullParsesDown(_)
FullParsesDown(c) ==
    IF c < 1 THEN <<>>
    ELSE SelectSeq(states[c], FullParseItem) \o FullParsesDown(c - 1)

EmptyInputFullParseIffNullable ==
    (pc = "done" /\ input = <<>>) =>
        /\ Len(states) = 1
        /\ HasFullParse(states[1]) <=> Derivable(<<>>, rules, start)
        /\ start \in nullable <=> Derivable(<<>>, rules, start)
        /\ IF start \in nullable
           THEN /\ out # <<>>
                /\ \A k \in 1..Len(out) :
                      /\ out[k].text = "Fully parsed:"
                      /\ Len(out[k].item) = 1
                      /\ FullParseItem(out[k].item[1])
           ELSE out = <<Line("Partial parse", <<>>)>>

\* The empty input is a full parse for S -> A B, A -> empty, B -> empty.
EmptyInputWitness ==
    /\ pc = "done"
    /\ input = <<>>
    /\ rules = ChainRules
    /\ start = S
    /\ out # <<>>
    /\ out[1].text = "Fully parsed:"

(***************************************************************************)
(* C10.  A "#" comment removes only the characters from "#" to the end of  *)
(* its line: the newline that ends the line still produces its NEWLINE     *)
(* token at nesting depth 0, so a source yields the same tokens as the     *)
(* source with every comment cut out and its newline kept.                 *)
(* StripComments cuts the comments out: "#" outside a string literal up to *)
(* but not including the next newline.                                     *)
(***************************************************************************)
RECURSIVE strip_from(_, _, _)
strip_from(inp, i, mode) ==
    IF i > Len(inp) THEN <<>>
    ELSE LET c == inp[i]
         IN IF mode = "comment"
            THEN IF c = "\n" THEN <<c>> \o strip_from(inp, i + 1, "code")
                 ELSE strip_from(inp, i + 1, "comment")
            ELSE IF mode = "code"
            THEN IF c = "#" THEN strip_from(inp, i + 1, "comment")
                 ELSE IF c = "'" \/ c = "\""
                 THEN <<c>> \o strip_from(inp, i + 1, c)
                 ELSE <<c>> \o strip_from(inp, i + 1, "code")
            ELSE <<c>> \o strip_from(inp, i + 1, IF c = mode THEN "code" ELSE mode)

StripComments(inp) == strip_from(inp, 1, "code")

CommentKeepsNewline ==
    (pc = "tokenize" /\ tk.status = "done") =>
        tk.tokens = tokenize(StripComments(src)).tokens

(***************************************************************************)
(* The language of a repetition: Reps(w, base, k) holds when w is the      *)
(* concatenation of k sequences of base.                                   *)
(***************************************************************************)
RECURSIVE Reps(_, _, _)
Reps(w, base, k) ==
    IF k = 0 THEN w = <<>>
    ELSE \E b \in base :
            /\ Len(b) <= Len(w)
            /\ SubSeq(w, 1, Len(b)) = b
            /\ Reps(SubSeq(w, Len(b) + 1, Len(w)), base, k - 1)

InRepetition(w, base, op) ==
    CASE op = "*" -> \E k \in 0..Len(w) : Reps(w, base, k)
      [] op = "+" -> \E k \in 1..Len(w) : Reps(w, base, k)
      [] op = "?" -> \E k \in 0..1 : Reps(w, base, k)

pa == PyToken("NAME", "a")

pb == PyToken("NAME", "b")

\* The sources whose first rule body is X*, X+ or [X], with what X accepts.
Repetition(source, op, base) == [src |-> source, op |-> op, base |-> base]

Repetitions ==
    {Repetition(StarSource, "*", {<<pa>>}),
     Repetition(PlusSource, "+", {<<pa>>}),
     Repetition(OptSource, "?", {<<pa>>}),
     Repetition(GroupStarSource, "*", {<<pa, pb>>}),
     Repetition(AltPlusSource, "+", {<<pa>>, <<pb>>}),
     Repetition(SeqOptSource, "?", {<<pa, pb>>}),
     Repetition(RuleStarSource, "*", {<<pa, pa>>}),
     Repetition(NamePlusSource, "+", {<<pa>>, <<pb>>}),
     Repetition(LinesStarSource, "*", {<<pa>>}),
     Repetition(CollisionSource, "*", {<<pa>>})}

Accepted == HasFullParse(states[Len(states)])

(***************************************************************************)
(* C5.  A grammar compiled from a source whose rule body is X*, X+ or [X]  *)
(* accepts an input if and only if the input is zero or more, one or more, *)
(* zero or one repetitions of what X accepts.                              *)
(***************************************************************************)
RepetitionAcceptsExactly ==
    \A c \in Repetitions :
        (pc = "done" /\ src = c.src) =>
            (Accepted <=> InRepetition(input, c.base, c.op))

\* The same on the sources that declare no head named like a synthesized
\* symbol.
RepetitionAcceptsExactlyUnlessCollision ==
    \A c \in Repetitions :
        (pc = "done" /\ src = c.src /\ src # CollisionSource) =>
            (Accepted <=> InRepetition(input, c.base, c.op))

(***************************************************************************)
(* C8.  In a grammar GrammarParser.parse produced, the synthesized         *)
(* nonterminals differ from every user-declared rule head and from each    *)
(* other.                                                                  *)
(***************************************************************************)
SynthesizedNamesDistinct ==
    (pc # "compile" /\ gp.status = "ok") =>
        /\ \A i \in 1..Len(gp.created) : \A d \in 1..Len(gp.declared) :
              gp.created[i] # gp.declared[d]
        /\ \A i, j \in 1..Len(gp.created) :
              i # j => gp.created[i] # gp.created[j]

\* The first token of the source that is not a NEWLINE: in a source that
\* compiles and has a rule, the head of the first rule in textual order.
FirstToken(tokens) ==
    tokens[CHOOSE i \in 1..Len(tokens) :
              /\ tokens[i].type # "NEWLINE"
              /\ \A j \in 1..(i - 1) : tokens[j].type = "NEWLINE"]

Compiled == pc # "compile" /\ gp.status = "ok"

InColumn(column, item) == \E k \in 1..Len(column) : column[k] = item

\* Column i of the chart is closed under prediction, the nullable step and
\* completion.
ColumnClosed(chart, i) ==
    LET column == chart[i + 1]
    IN \A k \in 1..Len(column) :
        LET item == column[k]
            expansion == item.rule.expansion
        IN IF item.position < Len(expansion)
           THEN LET symbol == expansion[item.position + 1]
                IN ~symbol.is_terminal =>
                     /\ \A r \in 1..Len(rules) :
                           rules[r].symbol = symbol =>
                               InColumn(column, Item(rules[r], i, 0))
                     /\ symbol \in nullable =>
                           InColumn(column, Advanced(item))
           ELSE LET origin == chart[item.start + 1]
                IN \A m \in 1..Len(origin) :
                      can_match(origin[m], item.rule.symbol) =>
                          InColumn(column, Advanced(origin[m]))

(***************************************************************************)
(* C12.  A column is left only when every item of it has been processed,   *)
(* and every column the parser has left is closed: the rules of every      *)
(* expected nonterminal are predicted in it, the items waiting for a       *)
(* nullable nonterminal are advanced in it, and every complete item has    *)
(* advanced every item waiting for its head in its origin column, the      *)
(* column itself included.                                                 *)
(***************************************************************************)
LeftClosed ==
    /\ pc \in {"loop", "done"} =>
          \A i \in 0..(idx - 1) : ColumnClosed(states, i)
    /\ pc = "done" => ColumnClosed(states, idx)

LeftColumnsClosed ==
    [][/\ (pc = "loop" /\ (idx' # idx \/ pc' = "done")) =>
              pos = Len(states[idx + 1])
       /\ LeftClosed']_vars

\* A column the parser has left holds a complete item of origin in the same
\* column and, after it, an item waiting for its head.
LeftColumnWitness ==
    /\ pc = "loop"
    /\ idx >= 1
    /\ \E i \in 0..(idx - 1) : \E k, m \in 1..Len(states[i + 1]) :
          /\ k < m
          /\ states[i + 1][k].position = Len(states[i + 1][k].rule.expansion)
          /\ states[i + 1][k].start = i
          /\ can_match(states[i + 1][m], states[i + 1][k].rule.symbol)

IsPrefix(a, b) == Len(a) <= Len(b) /\ SubSeq(b, 1, Len(a)) = a

\* From chart to next, column c (counted from 0) has only been appended to
\* and every other column is as it was.
OnlyColumnGrows(chart, next, c) ==
    /\ Len(next) = Len(chart)
    /\ \A j \in 1..Len(chart) :
          IF j = c + 1 THEN IsPrefix(chart[j], next[j])
          ELSE next[j] = chart[j]

(***************************************************************************)
(* C13.  Processing an item of column i: a completion or a prediction      *)
(* (with its nullable step) appends only to column i; a scan appends at    *)
(* most one item, only to column i+1, and only when there is a token at i  *)
(* that the terminal accepts; otherwise the chart is unchanged.  Nothing   *)
(* else of the parser changes.                                             *)
(***************************************************************************)
StepsTouchOnlyTheirColumn ==
    [][(pc = "loop" /\ pos' = pos + 1) =>
          LET item == CurrentItem
              expansion == item.rule.expansion
          IN /\ UNCHANGED <<pc, idx, rules, start, nullable, input, out>>
             /\ IF item.position < Len(expansion)
                   /\ expansion[item.position + 1].is_terminal
                THEN IF idx < Len(input)
                        /\ match(expansion[item.position + 1].token,
                                 input[idx + 1])
                     THEN /\ OnlyColumnGrows(states, states', idx + 1)
                          /\ Len(states'[idx + 2]) <= Len(states[idx + 2]) + 1
                     ELSE states' = states
                ELSE OnlyColumnGrows(states, states', idx)]_vars

\* The item just processed in a column past the first expected a terminal
\* that rejected the token, and an earlier item of the column was scanned.
StepsWitness ==
    /\ pc = "loop"
    /\ idx >= 1
    /\ idx < Len(input)
    /\ pos >= 1
    /\ LET item == states[idx + 1][pos]
       IN /\ item.position < Len(item.rule.expansion)
          /\ item.rule.expansion[item.position + 1].is_terminal
          /\ ~match(item.rule.expansion[item.position + 1].token,
                    input[idx + 1])
    /\ states[idx + 2] # <<>>

PrefixOf(w, k) == SubSeq(w, 1, k)

\* The prefixes of the input that are sentences, by their lengths.
SentencePrefixes ==
    {k \in 0..Len(input) : Derivable(PrefixOf(input, k), rules, start)}

Greatest(ks) == CHOOSE k \in ks : \A j \in ks : j <= k

FirstFullParse(column) ==
    column[CHOOSE k \in 1..Len(column) :
              /\ FullParseItem(column[k])
              /\ \A j \in 1..(k - 1) : ~FullParseItem(column[j])]

(***************************************************************************)
(* C14.  After Parser.parse(w), column k holds a full-parse item if and    *)
(* only if the first k tokens of w are a sentence of the grammar.  When w  *)
(* is no sentence, the first partial parse reported is the first           *)
(* full-parse item of the greatest column whose prefix is a sentence, and  *)
(* no item is reported exactly when no prefix of w is a sentence.          *)
(***************************************************************************)
PrefixParses ==
    pc = "done" =>
        /\ \A k \in 0..Len(input) :
              HasFullParse(states[k + 1]) <=> k \in SentencePrefixes
        /\ Len(input) \notin SentencePrefixes =>
              /\ out[1] = Line("Partial parse", <<>>)
              /\ SentencePrefixes # {} =>
                    /\ Len(out) >= 2
                    /\ out[2] =
                          Line("Partial parse:",
                               <<FirstFullParse(
                                    states[Greatest(SentencePrefixes) + 1])>>)
        /\ ItemLines = <<>> <=> SentencePrefixes = {}

\* The input is no sentence and two of its proper prefixes are.
PrefixParsesWitness ==
    /\ pc = "done"
    /\ Len(input) \notin SentencePrefixes
    /\ Cardinality(SentencePrefixes) >= 2
    /\ Len(ItemLines) >= 2

KnownChars == id_chars \cup op_chars \cup {" ", "\n", "'", "\"", "#"}

\* Whether inp, read from position i in the given mode ("code", "comment"
\* or the quote of an open string), holds a character outside KnownChars
\* that is in no comment and no string.
RECURSIVE unknown_from(_, _, _)
unknown_from(inp, i, mode) ==
    IF i > Len(inp) THEN FALSE
    ELSE LET c == inp[i]
         IN IF mode = "comment"
            THEN unknown_from(inp, i + 1, IF c = "\n" THEN "code" ELSE mode)
            ELSE IF mode = "code"
            THEN IF c = "#" THEN unknown_from(inp, i + 1, "comment")
                 ELSE IF c = "'" \/ c = "\"" THEN unknown_from(inp, i + 1, c)
                 ELSE c \notin KnownChars \/ unknown_from(inp, i + 1, "code")
            ELSE unknown_from(inp, i + 1, IF c = mode THEN "code" ELSE mode)

HasUnknownChar(inp) == unknown_from(inp, 1, "code")

EndsWithOneEndmarker(tokens) ==
    /\ tokens # <<>>
    /\ \A i \in 1..Len(tokens) :
          tokens[i].type = "ENDMARKER" <=> i = Len(tokens)

(***************************************************************************)
(* C15.  tokenize raises if and only if the source holds, outside every    *)
(* comment and string, a character it does not know; otherwise it ends     *)
(* with a token sequence that has one ENDMARKER, its last token.           *)
(***************************************************************************)
TokenizeFailsIffUnknownChar ==
    (pc = "tokenize" /\ tk.status # "run") =>
        IF HasUnknownChar(src) THEN tk.status = "AssertionError"
        ELSE tk.status = "done" /\ EndsWithOneEndmarker(tk.tokens)

\* The same for the sources in which no comment reaches the end of the
\* input.
TokenizeFailsIffUnknownCharUnlessOpenComment ==
    (pc = "tokenize" /\ tk.status # "run" /\ tk.status # "IndexError") =>
        IF HasUnknownChar(src) THEN tk.status = "AssertionError"
        ELSE tk.status = "done" /\ EndsWithOneEndmarker(tk.tokens)

\* Rules with their terminal objects replaced by what they match: two
\* compilations of one source make different objects of the same shape.
UpToIdentity(rs) ==
    [i \in 1..Len(rs) |->
        [symbol |-> rs[i].symbol,
         expansion |->
            [j \in 1..Len(rs[i].expansion) |->
                [value |-> rs[i].expansion[j].token.value,
                 range |-> rs[i].expansion[j].token.range,
                 is_terminal |-> rs[i].expansion[j].is_terminal]]]]

\* What a new GrammarParser object makes of the source.
FromNewObject == parse(NewGrammarParser, src)

\* The rules the object held before the current call.
LeftOver == SubSeq(gp.rules, 1, Len(gp.rules) - Len(FromNewObject.rules))

(***************************************************************************)
(* C16.  The grammar parse(src) returns is the one a new object returns    *)
(* for src, whatever the object parsed before: the same rules and start    *)
(* symbol, and no synthesized nonterminal that is a symbol of a rule left  *)
(* from an earlier call.                                                   *)
(***************************************************************************)
GrammarDependsOnlyOnSource ==
    Compiled =>
        /\ UpToIdentity(gp.rules) = UpToIdentity(FromNewObject.rules)
        /\ gp.start_symbol = FromNewObject.start_symbol
        /\ \A i \in 1..Len(gp.created) :
              gp.created[i] \notin SymbolsOf(LeftOver)

\* What does hold: the rules of src follow the rules of the earlier call.
RulesOfSourceAreAppended ==
    Compiled =>
        /\ Len(gp.rules) >= Len(FromNewObject.rules)
        /\ UpToIdentity(SubSeq(gp.rules, Len(LeftOver) + 1, Len(gp.rules)))
              = UpToIdentity(FromNewObject.rules)
        /\ gp.start_symbol = FromNewObject.start_symbol

(***************************************************************************)
(* C17.  Every item of every column i of the chart has its dot between 0   *)
(* and the length of its rule's expansion, its origin between 0 and i, and *)
(* a rule of the grammar, in every state of the parse.                     *)
(***************************************************************************)
ItemsWellFormed ==
    pc \in {"loop", "done"} =>
        \A c \in 1..Len(states) : \A k \in 1..Len(states[c]) :
            LET item == states[c][k]
            IN /\ 0 <= item.position
               /\ item.position <= Len(item.rule.expansion)
               /\ 0 <= item.start
               /\ item.start <= c - 1
               /\ \E r \in 1..Len(rules) : rules[r] = item.rule

\* A column past the first holds a seeded item scanned to its end, a
\* predicted item of that column, and an item completed or advanced by the
\* nullable step in it.
ItemsWitness ==
    /\ pc = "done"
    /\ \E c \in 2..Len(states) : \E k, m, n \in 1..Len(states[c]) :
          /\ states[c][k].position = Len(states[c][k].rule.expansion)
          /\ states[c][k].position >= 2
          /\ states[c][k].start = 0
          /\ states[c][m].start = c - 1
          /\ states[c][m].position = 0
          /\ states[c][n].start = c - 1
          /\ states[c][n].position >= 1

=============================================================================
